---- MODULE Spec2Model ----
(***************************************************************************)
(* The multilayer perceptron notebook P03-C01-mlp-scratch.ipynb: the       *)
(* functions relu, softmax, net, cross_entropy, SGD, evaluate_accuracy and *)
(* the training loop.                                                      *)
(*                                                                         *)
(* Numbers.  Data, parameters and logits are integers.  nd.exp is the      *)
(* power of two in a floating format whose smallest positive value is      *)
(* 2^-MinExp: like float32 (where exp underflows to 0 below about -104) it *)
(* returns 0 for an argument below -MinExp.  exp values are held in units  *)
(* of 2^-MinExp.  A quotient a / b is the pair <<a, b>>; <<0, 0>> is the   *)
(* NaN that 0 / 0 gives.  A logarithm is held by its argument: the record  *)
(* [k |-> "log", num, den] is log(num / den), with the IEEE values         *)
(* "-inf" (log 0), "+inf" and "nan".  A scalar computed from logarithms is *)
(* a list of terms [c |-> <<a, b>>, v |-> logarithm], the sum of           *)
(* (a / b) * v.                                                            *)
(***************************************************************************)
EXTENDS Integers, Sequences, FiniteSets, TLC

\* Sizes of the model (the notebook: 784, 256, 128, 10 and batch_size 64).
NIn == 2
NH1 == 2
NH2 == 2
NClasses == 2
BatchRows == 2
NumTrain == 5
NumTest == 3
MinExp == 4

epochs_short == 5 - 1
epochs == 5
lr == <<1, 100>>

ParamSeeds == {0, 1}
DataSeeds == {0, 1, 2}
GradSeeds == {0, 1}

VARIABLES
  pc,             \* position in the training cell
  e,              \* epoch counter of `for e in range(epochs)`
  i,              \* index of the current batch (enumerate)
  data,           \* [train, test]: the arrays given to the two NDArrayIter
  cursor,         \* [train, test]: NDArrayIter.cursor
  batch,          \* the current batch of the training loop
  W,              \* the parameters W1, b1, W2, b2, W3, b3
  grad,           \* their .grad buffers
  output, loss,   \* results of the recorded forward pass
  moving_loss,
  ev,             \* locals of the running evaluate_accuracy call
  test_accuracy, train_accuracy,
  out,            \* the lines printed
  tape,           \* autograd: the computation recorded by autograd.record()
  gradsrc,        \* autograd: the recorded computation grad is the gradient of
  steps,          \* history: calls made for the current batch
  trained,        \* history: cursors of the batches trained in this epoch
  evseen,         \* history: cursors of the batches of the running evaluation
  evW,            \* history: the parameters each evaluation batch of this epoch used
  autograd,       \* autograd: which function of the recording the gradient is
  updW,           \* history: the parameters as the last SGD call left them
  call            \* a single call of a function of the notebook (FnSpec)

vars == <<pc, e, i, data, cursor, batch, W, grad, output, loss, moving_loss, ev,
          test_accuracy, train_accuracy, out, tape, gradsrc, steps, trained,
          evseen, evW, updW, autograd, call>>

loopvars == <<pc, e, i, data, cursor, batch, grad, output, loss, moving_loss, ev,
              test_accuracy, train_accuracy, out, tape, gradsrc, steps, trained,
              evseen, evW, autograd, updW>>

----------------------------------------------------------------------------
\* Arithmetic of the tensor library.

\* an array with its entries computed: the sequence of the values of f
Arr(f) == f \o <<>>

\* F(v), with v computed once (a local variable of the code)
Let(v, F(_)) == CHOOSE y \in {F(x) : x \in {v}} : TRUE

RECURSIVE Pow2(_)
Pow2(n) == IF n <= 0 THEN 1 ELSE 2 * Pow2(n - 1)

RECURSIVE GCD(_, _)
GCD(a, b) == IF b = 0 THEN a ELSE Let(a % b, LAMBDA m : GCD(b, m))

RECURSIVE SumTo(_, _)
SumTo(s, n) == IF n = 0 THEN 0 ELSE s[n] + SumTo(s, n - 1)
SeqSum(s) == Let(s, LAMBDA v : SumTo(v, Len(v)))

Rows(M) == 1..Len(M)
Cols(M) == 1..Len(M[1])

nd_dot(A, B) ==
  Arr([r \in Rows(A) |-> Arr([c \in Cols(B) |->
     SeqSum(Arr([k \in 1..Len(B) |-> A[r][k] * B[k][c]]))])])

\* X + b with b a vector held as a 1-row array, broadcast over the rows of X
nd_add_bias(X, b) == Arr([r \in Rows(X) |-> Arr([c \in Cols(X) |-> X[r][c] + b[1][c]])])

nd_zeros_like(X) == Arr([r \in Rows(X) |-> Arr([c \in Cols(X) |-> 0])])

nd_maximum(A, B) ==
  Arr([r \in Rows(A) |->
         Arr([c \in Cols(A) |-> IF A[r][c] >= B[r][c] THEN A[r][c] ELSE B[r][c]])])

\* nd.max with no axis: the largest entry of the whole array
nd_max(M) ==
  LET S == {M[r][c] : r \in Rows(M), c \in Cols(M)}
  IN CHOOSE x \in S : \A y \in S : y <= x

nd_exp(d) == IF d < -MinExp THEN 0 ELSE Pow2(MinExp + d)

nd_div(a, b) == <<a, b>>

IsNaN(p) == p[2] = 0
RatLess(p, q) == ~IsNaN(p) /\ ~IsNaN(q) /\ p[1] * q[2] < q[1] * p[2]

NaNLog == [k |-> "nan", num |-> 0, den |-> 0]
NegInfLog == [k |-> "-inf", num |-> 0, den |-> 1]
PosInfLog == [k |-> "+inf", num |-> 1, den |-> 0]
Log(n, d) == LET g == GCD(n, d) IN [k |-> "log", num |-> n \div g, den |-> d \div g]

nd_log(p) ==
  IF IsNaN(p) THEN NaNLog
  ELSE IF p[1] = 0 THEN NegInfLog
  ELSE Log(p[1], p[2])

\* y * l for a label entry y in {0, 1}: 0 * log x = 0 = log 1, 0 * -inf = NaN
nd_mul(y, l) ==
  IF l.k = "nan" THEN NaNLog
  ELSE IF y = 0 THEN (IF l.k = "log" THEN Log(1, 1) ELSE NaNLog)
  ELSE l

log_add(a, b) ==
  IF a.k = "nan" \/ b.k = "nan" THEN NaNLog
  ELSE IF a.k = "-inf" \/ b.k = "-inf" THEN NegInfLog
  ELSE Log(a.num * b.num, a.den * b.den)

RECURSIVE LogSumTo(_, _)
LogSumTo(s, n) ==
  IF n = 0 THEN Log(1, 1) ELSE Let(LogSumTo(s, n - 1), LAMBDA acc : log_add(acc, s[n]))
log_sum(s) == Let(s, LAMBDA v : LogSumTo(v, Len(v)))

log_neg(a) ==
  IF a.k = "nan" THEN NaNLog
  ELSE IF a.k = "-inf" THEN PosInfLog
  ELSE Log(a.den, a.num)

\* nd.mean(loss).asscalar(): (1 / rows) * sum of the rows' losses
nd_mean(l) == << [c |-> <<1, Len(l)>>, v |-> log_sum(l)] >>

scalar_scale(q, s) ==
  Arr([t \in 1..Len(s) |-> [c |-> <<q[1] * s[t].c[1], q[2] * s[t].c[2]>>, v |-> s[t].v]])
scalar_add(s, t) == s \o t

\* nd.argmax(output, axis=1): per row the first class holding the row's maximum
nd_argmax(M) ==
  Arr([r \in Rows(M) |->
     (CHOOSE c \in Cols(M) :
        /\ \A d \in Cols(M) : ~RatLess(M[r][c], M[r][d])
        /\ \A d \in 1..(c - 1) : \E d2 \in Cols(M) : RatLess(M[r][d], M[r][d2])) - 1])

nd_one_hot(label, depth) ==
  Arr([r \in 1..Len(label) |-> Arr([c \in 1..depth |-> IF c - 1 = label[r] THEN 1 ELSE 0])])

----------------------------------------------------------------------------
\* The functions of the notebook.

relu(X) == nd_maximum(X, nd_zeros_like(X))

softmax(y_linear) ==
  Let(nd_max(y_linear), LAMBDA m :
  Let(Arr([r \in Rows(y_linear) |->
             Arr([c \in Cols(y_linear) |-> nd_exp(y_linear[r][c] - m)])]), LAMBDA exp :
  Let(Arr([r \in Rows(exp) |-> SeqSum(exp[r])]), LAMBDA partition :
    Arr([r \in Rows(exp) |-> Arr([c \in Cols(exp) |-> nd_div(exp[r][c], partition[r])])]))))

\* net with the second activation left out
net_one_relu(Wm, X) ==
  Let(nd_add_bias(nd_dot(X, Wm["W1"]), Wm["b1"]), LAMBDA h1_linear :
  Let(relu(h1_linear), LAMBDA h1 :
  Let(nd_add_bias(nd_dot(h1, Wm["W2"]), Wm["b2"]), LAMBDA h2_linear :
  Let(nd_add_bias(nd_dot(h2_linear, Wm["W3"]), Wm["b3"]), LAMBDA yhat_linear :
    softmax(yhat_linear)))))

net(Wm, X) ==
  Let(nd_add_bias(nd_dot(X, Wm["W1"]), Wm["b1"]), LAMBDA h1_linear :
  Let(relu(h1_linear), LAMBDA h1 :
  Let(nd_add_bias(nd_dot(h1, Wm["W2"]), Wm["b2"]), LAMBDA h2_linear :
  Let(relu(h2_linear), LAMBDA h2 :
  Let(nd_add_bias(nd_dot(h2, Wm["W3"]), Wm["b3"]), LAMBDA yhat_linear :
  Let(softmax(yhat_linear), LAMBDA yhat :
    yhat))))))

cross_entropy(yhat, y) ==
  Arr([r \in Rows(yhat) |->
     log_neg(log_sum(Arr([c \in Cols(yhat) |-> nd_mul(y[r][c], nd_log(yhat[r][c]))])))])

params == <<"W1", "b1", "W2", "b2", "W3", "b3">>

\* `param = param - lr * param.grad`: the name is rebound, the array is not written
SGD_rebind(Wm, G, ps, lr_) == Wm

RECURSIVE SGD(_, _, _, _)
SGD(Wm, G, ps, lr_) ==
  IF ps = <<>> THEN Wm
  ELSE Let(Head(ps), LAMBDA param :
       Let(Arr([r \in Rows(Wm[param]) |-> Arr([c \in Cols(Wm[param]) |->
              Wm[param][r][c] - (lr_[1] * G[param][r][c]) \div lr_[2]])]), LAMBDA new :
       Let([Wm EXCEPT ![param] = new], LAMBDA updated :
         SGD(updated, G, Tail(ps), lr_))))

\* `denominator += 1`: batches counted, not examples
evaluate_accuracy_body_counts_batches(acc, Wm, b) ==
  Let(b.label, LAMBDA label :
  Let(net(Wm, b.data), LAMBDA outp :
  Let(nd_argmax(outp), LAMBDA predictions :
    [acc EXCEPT
       !.numerator = @ + Cardinality({r \in 1..Len(label) : predictions[r] = label[r]}),
       !.denominator = @ + 1])))

\* one pass of the body of evaluate_accuracy's loop
evaluate_accuracy_body(acc, Wm, b) ==
  Let(b.label, LAMBDA label :
  Let(net(Wm, b.data), LAMBDA outp :
  Let(nd_argmax(outp), LAMBDA predictions :
    [acc EXCEPT
       !.numerator = @ + Cardinality({r \in 1..Len(label) : predictions[r] = label[r]}),
       !.denominator = @ + Len(b.data)])))

\* `if i == 0 and e == 0`: the average restarts in the first epoch only
moving_average_first_epoch_only(i_, ml, l) ==
  IF i_ = 0 /\ ml = <<>> THEN nd_mean(l)
  ELSE scalar_add(scalar_scale(<<99, 100>>, ml), scalar_scale(<<1, 100>>, nd_mean(l)))

moving_average(i_, ml, l) ==
  IF i_ = 0 THEN nd_mean(l)
  ELSE scalar_add(scalar_scale(<<99, 100>>, ml), scalar_scale(<<1, 100>>, nd_mean(l)))

----------------------------------------------------------------------------
\* mx.io.NDArrayIter(data, label, batch_size), last_batch_handle = 'pad'.

\* a reset that leaves the cursor where it is
reset_noop(cur, which) == cur

\* data_iterator.reset(): the cursor goes back to one batch before the first
reset(cur, which) == [cur EXCEPT ![which] = -BatchRows]
iter_next(cur) == cur + BatchRows
iter_has(d, cur) == cur < Len(d.x)

\* the batch at cursor cur; the last batch is padded with the first examples
iter_getbatch(d, cur) ==
  LET n == Len(d.x)
      idx == [k \in 1..BatchRows |-> IF cur + k <= n THEN cur + k ELSE cur + k - n]
  IN [data |-> Arr([k \in 1..BatchRows |-> d.x[idx[k]]]),
      label |-> Arr([k \in 1..BatchRows |-> d.y[idx[k]]])]

----------------------------------------------------------------------------
\* Initial values.

ParamNames == {params[k] : k \in 1..Len(params)}

Shape(p) ==
  CASE p = "W1" -> <<NIn, NH1>> [] p = "b1" -> <<1, NH1>>
    [] p = "W2" -> <<NH1, NH2>> [] p = "b2" -> <<1, NH2>>
    [] p = "W3" -> <<NH2, NClasses>> [] p = "b3" -> <<1, NClasses>>

\* an array of entries in -1..1 chosen by seed
Fill(shape, seed) ==
  Arr([r \in 1..shape[1] |-> Arr([c \in 1..shape[2] |-> ((seed + 2 * r + c + r * c) % 3) - 1])])

ParamIndex(p) == CHOOSE k \in 1..Len(params) : params[k] = p

\* nd.random_normal(shape) * .01
InitParams(seed) == [p \in ParamNames |-> Fill(Shape(p), seed + ParamIndex(p))]

\* param.attach_grad(): a zero gradient buffer per parameter
InitGrad == [p \in ParamNames |-> nd_zeros_like(Fill(Shape(p), 0))]

Dataset(n, seed) ==
  [x |-> Arr([k \in 1..n |-> Arr([c \in 1..NIn |-> ((seed + k + c * k) % 3) % 2])]),
   y |-> Arr([k \in 1..n |-> ((seed + (k * (k + 1)) \div 2) % 3) % NClasses])]

NoCall == [f |-> "none", done |-> FALSE, a |-> <<>>, b |-> <<>>, result |-> <<>>]

\* everything but pc, W and call, as the cells before the training cell leave it
InitRest(seeds) ==
  /\ e = 0
  /\ i = 0
  /\ \E s \in seeds :
       data = [train |-> Dataset(NumTrain, s), test |-> Dataset(NumTest, s + 1)]
  /\ cursor = [train |-> -BatchRows, test |-> -BatchRows]
  /\ batch = [data |-> <<>>, label |-> <<>>]
  /\ grad = InitGrad
  /\ output = <<>>
  /\ loss = <<>>
  /\ moving_loss = <<>>
  /\ ev = [which |-> "none", numerator |-> 0, denominator |-> 0]
  /\ test_accuracy = <<0, 0>>
  /\ train_accuracy = <<0, 0>>
  /\ out = <<>>
  /\ tape = [recorded |-> FALSE, W |-> <<>>, batch |-> <<>>]
  /\ gradsrc = [recorded |-> FALSE, W |-> <<>>, batch |-> <<>>]
  /\ steps = <<>>
  /\ trained = <<>>
  /\ evseen = <<>>
  /\ evW = <<>>
  /\ autograd \in GradSeeds

Init ==
  /\ pc = "for_e"
  /\ \E s \in ParamSeeds : W = InitParams(s)
  /\ updW = W
  /\ call = NoCall
  /\ InitRest(DataSeeds)

\* autograd: the gradient of a recorded computation t.  The derivative is not
\* computed: the result is a function of what was recorded (the parameter
\* values and the batch), one function per seed, with entries that are whole
\* multiples of 1 / lr.
ArrSum(M) == SeqSum(Arr([r \in 1..Len(M) |-> SeqSum(M[r])]))

TapeSum(t) ==
  SeqSum(Arr([k \in 1..Len(params) |-> k * ArrSum(t.W[params[k]])]))
    + 2 * ArrSum(t.batch.data) + SeqSum(t.batch.label)

autograd_gradient(t, seed) ==
  Let(seed + TapeSum(t), LAMBDA k :
    [p \in ParamNames |->
       Let(Fill(Shape(p), k + ParamIndex(p)), LAMBDA g :
         Arr([r \in Rows(g) |-> Arr([c \in Cols(g) |-> lr[2] * g[r][c]])]))])

----------------------------------------------------------------------------
\* The training cell.

\* the statements of the body of `for e in range(epochs)` after
\* train_data.reset(), in order
epoch_body_stale_test == <<"eval_test", "for_batch", "eval_train", "print">>
epoch_body == <<"for_batch", "eval_test", "eval_train", "print">>

\* the statements of the body of `for i, batch in enumerate(train_data)` after
\* the batch is unpacked, in order
body_update_first == <<"record", "SGD", "backward", "average">>
body == <<"record", "backward", "SGD", "average">>

\* the statement run after statement s of the block stmts; after its last, `back`
After(stmts, s, back) ==
  LET k == CHOOSE n \in 1..Len(stmts) : stmts[n] = s
  IN IF k = Len(stmts) THEN back ELSE stmts[k + 1]

\* for e in range(epochs): train_data.reset()
EpochLoop ==
  /\ pc = "for_e"
  /\ IF e < epochs
     THEN /\ cursor' = reset(cursor, "train")
          /\ pc' = epoch_body[1]
     ELSE /\ cursor' = cursor
          /\ pc' = "done"
  /\ i' = -1
  /\ trained' = <<>>
  /\ evW' = <<>>
  /\ UNCHANGED <<e, data, batch, W, grad, output, loss, moving_loss, ev, test_accuracy,
                 train_accuracy, out, tape, gradsrc, steps, evseen, updW, autograd, call>>

\* for i, batch in enumerate(train_data): data, label, label_one_hot
NextBatch ==
  /\ pc = "for_batch"
  /\ LET cur == iter_next(cursor.train) IN
       /\ cursor' = [cursor EXCEPT !.train = cur]
       /\ IF iter_has(data.train, cur)
          THEN /\ batch' = iter_getbatch(data.train, cur)
               /\ i' = i + 1
               /\ trained' = Append(trained, cur)
               /\ pc' = body[1]
          ELSE /\ UNCHANGED <<batch, i, trained>>
               /\ pc' = After(epoch_body, "for_batch", "for_e")
  /\ steps' = <<>>
  /\ UNCHANGED <<e, data, W, grad, output, loss, moving_loss, ev, test_accuracy,
                 train_accuracy, out, tape, gradsrc, evseen, evW, updW, autograd, call>>

\* with autograd.record(): output = net(data); loss = cross_entropy(output, label_one_hot)
Forward ==
  /\ pc = "record"
  /\ \E label_one_hot \in {nd_one_hot(batch.label, NClasses)} :
       \E yhat \in {net(W, batch.data)} :
         /\ output' = yhat
         /\ loss' = cross_entropy(yhat, label_one_hot)
  /\ tape' = [recorded |-> TRUE, W |-> W, batch |-> batch]
  /\ steps' = Append(steps, "forward")
  /\ pc' = After(body, "record", "for_batch")
  /\ UNCHANGED <<e, i, data, cursor, batch, W, grad, moving_loss, ev, test_accuracy,
                 train_accuracy, out, gradsrc, trained, evseen, evW, updW, autograd, call>>

\* loss.backward(): every grad buffer is overwritten with the gradient of the
\* recorded computation
Backward ==
  /\ pc = "backward"
  /\ grad' = autograd_gradient(tape, autograd)
  /\ gradsrc' = tape
  /\ steps' = Append(steps, "backward")
  /\ pc' = After(body, "backward", "for_batch")
  /\ UNCHANGED <<e, i, data, cursor, batch, W, output, loss, moving_loss, ev,
                 test_accuracy, train_accuracy, out, tape, trained, evseen, evW, updW,
                 autograd, call>>

\* SGD(params, .01)
Update ==
  /\ pc = "SGD"
  /\ W' = SGD(W, grad, params, lr)
  /\ updW' = W'
  /\ steps' = Append(steps, "SGD")
  /\ pc' = After(body, "SGD", "for_batch")
  /\ UNCHANGED <<e, i, data, cursor, batch, grad, output, loss, moving_loss, ev,
                 test_accuracy, train_accuracy, out, tape, gradsrc, trained, evseen,
                 evW, autograd, call>>

\* if i == 0: moving_loss = mean(loss) else: moving_loss = .99 * moving_loss + .01 * mean(loss)
Average ==
  /\ pc = "average"
  /\ moving_loss' = moving_average(i, moving_loss, loss)
  /\ pc' = After(body, "average", "for_batch")
  /\ UNCHANGED <<e, i, data, cursor, batch, W, grad, output, loss, ev, test_accuracy,
                 train_accuracy, out, tape, gradsrc, steps, trained, evseen, evW, updW,
                 autograd, call>>

\* evaluate_accuracy(test_data, net), evaluate_accuracy(train_data, net):
\* numerator = 0.; denominator = 0.; data_iterator.reset()
EvalCall ==
  /\ pc \in {"eval_test", "eval_train"}
  /\ LET which == IF pc = "eval_test" THEN "test" ELSE "train" IN
       /\ ev' = [which |-> which, numerator |-> 0, denominator |-> 0]
       /\ cursor' = reset(cursor, which)
  /\ evseen' = <<>>
  /\ pc' = "eval_for"
  /\ UNCHANGED <<e, i, data, batch, W, grad, output, loss, moving_loss, test_accuracy,
                 train_accuracy, out, tape, gradsrc, steps, trained, evW, updW, autograd, call>>

\* for i, batch in enumerate(data_iterator): ... numerator += ...; denominator += ...
EvalBatch ==
  /\ pc = "eval_for"
  /\ LET cur == iter_next(cursor[ev.which]) IN
       /\ cursor' = [cursor EXCEPT ![ev.which] = cur]
       /\ IF iter_has(data[ev.which], cur)
          THEN /\ ev' = evaluate_accuracy_body(ev, W, iter_getbatch(data[ev.which], cur))
               /\ evseen' = Append(evseen, cur)
               /\ evW' = Append(evW, [which |-> ev.which, W |-> W])
               /\ pc' = "eval_for"
          ELSE /\ UNCHANGED <<ev, evseen, evW>>
               /\ pc' = "eval_return"
  /\ UNCHANGED <<e, i, data, batch, W, grad, output, loss, moving_loss, test_accuracy,
                 train_accuracy, out, tape, gradsrc, steps, trained, updW, autograd, call>>

\* return (numerator / denominator).asscalar()
EvalReturn ==
  /\ pc = "eval_return"
  /\ IF ev.which = "test"
     THEN /\ test_accuracy' = nd_div(ev.numerator, ev.denominator)
          /\ train_accuracy' = train_accuracy
          /\ pc' = After(epoch_body, "eval_test", "for_e")
     ELSE /\ train_accuracy' = nd_div(ev.numerator, ev.denominator)
          /\ test_accuracy' = test_accuracy
          /\ pc' = After(epoch_body, "eval_train", "for_e")
  /\ UNCHANGED <<e, i, data, cursor, batch, W, grad, output, loss, moving_loss, ev, out,
                 tape, gradsrc, steps, trained, evseen, evW, updW, autograd, call>>

\* print("Epoch %s. Loss: %s, Train_acc %s, Test_acc %s" % (...))
Report ==
  /\ pc = "print"
  /\ out' = Append(out, [e |-> e, loss |-> moving_loss, train_acc |-> train_accuracy,
                         test_acc |-> test_accuracy])
  /\ e' = e + 1
  /\ pc' = After(epoch_body, "print", "for_e")
  /\ UNCHANGED <<i, data, cursor, batch, W, grad, output, loss, moving_loss, ev,
                 test_accuracy, train_accuracy, tape, gradsrc, steps, trained, evseen,
                 evW, updW, autograd, call>>

Next ==
  \/ EpochLoop
  \/ NextBatch
  \/ Forward
  \/ Backward
  \/ Update
  \/ Average
  \/ EvalCall
  \/ EvalBatch
  \/ EvalReturn
  \/ Report

Spec == Init /\ [][Next]_vars

\* the cell is one sequential program: it keeps running until it ends
FairSpec == Spec /\ WF_vars(Next)

----------------------------------------------------------------------------
\* Single calls of softmax, net and cross_entropy on given arrays.

FnRowCounts == {1, 2}
LogitVals == {0, -1, -(MinExp + 2)}
InputVals == {0, 1, 2}
ProbVals == {<<0, 1>>, <<1, 2>>, <<1, 1>>}

Arrays(nr, nc, Vals) == [1..nr -> [1..nc -> Vals]]

OneHotRows == {Arr([c \in 1..NClasses |-> IF c = t THEN 1 ELSE 0]) : t \in 1..NClasses}

CallOf(f, a, b) == [f |-> f, done |-> FALSE, a |-> a, b |-> b, result |-> <<>>]

SoftmaxCalls ==
  {CallOf("softmax", m, <<>>) : m \in UNION {Arrays(n, NClasses, LogitVals) : n \in FnRowCounts}}

NetCalls ==
  {CallOf("net", m, <<>>) : m \in UNION {Arrays(n, NIn, InputVals) : n \in FnRowCounts}}

\* one row of any labels in {0, 1}, or two rows of one-hot labels
CrossEntropyCalls ==
  {CallOf("cross_entropy", p, y) :
     p \in Arrays(1, NClasses, ProbVals), y \in Arrays(1, NClasses, {0, 1})}
  \cup
  {CallOf("cross_entropy", p, y) :
     p \in Arrays(2, NClasses, ProbVals), y \in [1..2 -> OneHotRows]}

FnInit ==
  /\ pc = "call"
  /\ call \in SoftmaxCalls \cup NetCalls \cup CrossEntropyCalls
  /\ W \in {InitParams(IF call.f = "net" THEN s ELSE 0) : s \in ParamSeeds}
  /\ updW = W
  /\ InitRest({0})

CallSoftmax ==
  /\ call.f = "softmax" /\ ~call.done
  /\ call' = [call EXCEPT !.done = TRUE, !.result = softmax(call.a)]
  /\ UNCHANGED <<loopvars, W>>

CallNet ==
  /\ call.f = "net" /\ ~call.done
  /\ call' = [call EXCEPT !.done = TRUE, !.result = net(W, call.a)]
  /\ UNCHANGED <<loopvars, W>>

CallCrossEntropy ==
  /\ call.f = "cross_entropy" /\ ~call.done
  /\ call' = [call EXCEPT !.done = TRUE, !.result = cross_entropy(call.a, call.b)]
  /\ UNCHANGED <<loopvars, W>>

FnNext ==
  \/ CallSoftmax
  \/ CallNet
  \/ CallCrossEntropy

FnSpec == FnInit /\ [][FnNext]_vars

----------------------------------------------------------------------------
\* softmax

SameShape(A, B) == Len(A) = Len(B) /\ \A r \in Rows(A) : Len(A[r]) = Len(B[r])

\* a row of quotients over one denominator that is a probability distribution
RowIsDistribution(row) ==
  /\ \A c \in 1..Len(row) : row[c][2] > 0 /\ row[c][2] = row[1][2] /\ row[c][1] >= 0
  /\ SeqSum(Arr([c \in 1..Len(row) |-> row[c][1]])) = row[1][2]

\* C1: for every 2-D input y_linear, softmax(y_linear) has the shape of
\* y_linear, every entry is non-negative and every row sums to one.
C1_SoftmaxRowsAreDistributions ==
  (call.f = "softmax" /\ call.done) =>
     /\ SameShape(call.result, call.a)
     /\ \A r \in Rows(call.result) : RowIsDistribution(call.result[r])

----------------------------------------------------------------------------
\* net

Affine(X, Wn, bn) ==
  Arr([r \in 1..Len(X) |-> Arr([c \in 1..Len(bn[1]) |->
     SeqSum(Arr([k \in 1..Len(Wn) |-> X[r][k] * Wn[k][c]])) + bn[1][c]])])

Positive(M) ==
  Arr([r \in 1..Len(M) |-> Arr([c \in 1..Len(M[r]) |-> IF M[r][c] > 0 THEN M[r][c] ELSE 0])])

HasNegative(M) == \E r \in 1..Len(M) : \E c \in 1..Len(M[r]) : M[r][c] < 0

\* C2: net(X) = softmax(relu(relu(X*W1 + b1)*W2 + b2)*W3 + b3), relu the
\* element-wise maximum with zero: three linear layers in the order 1, 2, 3,
\* relu after the first and the second only, softmax on the third only.
C2_NetIsThreeLayers ==
  (call.f = "net" /\ call.done) =>
     call.result =
       softmax(Affine(Positive(Affine(Positive(Affine(call.a, W["W1"], W["b1"])),
                                      W["W2"], W["b2"])),
                      W["W3"], W["b3"]))

\* a call of net in which both activations clip a negative entry
C2_Witness ==
  /\ call.f = "net" /\ call.done
  /\ Len(call.a) = 2
  /\ HasNegative(Affine(call.a, W["W1"], W["b1"]))
  /\ HasNegative(Affine(Positive(Affine(call.a, W["W1"], W["b1"])), W["W2"], W["b2"]))
  /\ \A r \in Rows(call.result) : RowIsDistribution(call.result[r])

----------------------------------------------------------------------------
\* cross_entropy

IsOneHot(row) ==
  /\ \A c \in 1..Len(row) : row[c] \in {0, 1}
  /\ SeqSum(row) = 1

TrueClass(row) == CHOOSE c \in 1..Len(row) : row[c] = 1

\* the product of the denominators of row[1..n]
RECURSIVE DenProduct(_, _)
DenProduct(row, n) == IF n = 0 THEN 1 ELSE row[n][2] * DenProduct(row, n - 1)

\* a row of quotients that is a probability distribution
IsDistribution(row) ==
  /\ \A c \in 1..Len(row) : row[c][2] > 0 /\ row[c][1] >= 0
  /\ LET D == DenProduct(row, Len(row))
     IN SeqSum(Arr([c \in 1..Len(row) |-> row[c][1] * (D \div row[c][2])])) = D

NonNegative(v) == v.k = "+inf" \/ (v.k = "log" /\ v.num >= v.den)

\* C6: cross_entropy(yhat, y) returns one loss per row; when y is one-hot
\* and the row of yhat is a probability distribution, the row's loss is
\* -log of the probability of the true class and is non-negative.
C6_CrossEntropyOfOneHot ==
  (call.f = "cross_entropy" /\ call.done) =>
     /\ Len(call.result) = Len(call.a)
     /\ \A r \in Rows(call.a) :
          (IsOneHot(call.b[r]) /\ IsDistribution(call.a[r])) =>
             /\ call.result[r] = log_neg(nd_log(call.a[r][TrueClass(call.b[r])]))
             /\ NonNegative(call.result[r])

----------------------------------------------------------------------------
\* SGD

\* C3: SGD(params, lr) replaces every one of W1, b1, W2, b2, W3, b3 by
\* p - lr * p.grad with the gradient held at the call, once, and changes no
\* gradient; the loop calls it with lr = 0.01 in every iteration.
C3_SGDUpdate ==
  [][pc = "SGD" =>
       /\ DOMAIN W' = {"W1", "b1", "W2", "b2", "W3", "b3"}
       /\ \A p \in {"W1", "b1", "W2", "b2", "W3", "b3"} :
            /\ SameShape(W'[p], W[p])
            /\ \A r \in Rows(W[p]) : \A c \in Cols(W[p]) :
                 100 * (W[p][r][c] - W'[p][r][c]) = grad[p][r][c]
       /\ grad' = grad]_vars

\* after an SGD call of the last epoch that changed a parameter
C3_Witness ==
  /\ pc = "average" /\ e = 4 /\ i > 0
  /\ \E p \in DOMAIN W : W[p] # tape.W[p]
  /\ \E p \in DOMAIN W : HasNegative(grad[p])

----------------------------------------------------------------------------
\* the training loop

\* W = V - 0.01 * G, entry by entry
IsOneUpdate(Wm, V, G) ==
  \A p \in DOMAIN V : \A r \in Rows(V[p]) : \A c \in Cols(V[p]) :
     100 * (V[p][r][c] - Wm[p][r][c]) = G[p][r][c]

\* C4: in every iteration the forward pass and loss of the current batch are
\* recorded, then backward runs, then SGD, once; no parameter changes
\* between the forward pass and backward, and the update uses the gradient
\* of the current batch's loss at the parameter values before the update.
C4_IterationOrder ==
  /\ pc = "backward" =>
       /\ steps = <<"forward">>
       /\ tape = [recorded |-> TRUE, W |-> W, batch |-> batch]
       /\ output = net(W, batch.data)
       /\ loss = cross_entropy(output, nd_one_hot(batch.label, NClasses))
  /\ pc = "SGD" =>
       /\ steps = <<"forward", "backward">>
       /\ gradsrc = [recorded |-> TRUE, W |-> W, batch |-> batch]
       /\ grad = autograd_gradient(gradsrc, autograd)
  /\ pc = "average" =>
       /\ steps = <<"forward", "backward", "SGD">>
       /\ gradsrc.batch = batch
       /\ grad = autograd_gradient(gradsrc, autograd)
       /\ IsOneUpdate(W, gradsrc.W, grad)
  /\ pc = "for_batch" => steps \in {<<>>, <<"forward", "backward", "SGD">>}

\* after the update of a later batch of a later epoch
C4_Witness ==
  /\ pc = "average" /\ e >= 1 /\ i >= 1
  /\ gradsrc.batch = batch
  /\ W # gradsrc.W

\* the cursors of the batches of d, in order
CursorSeq(d) == Arr([k \in 1..(((Len(d.x) - 1) \div BatchRows) + 1) |-> (k - 1) * BatchRows])

IsPrefix(s, t) == Len(s) <= Len(t) /\ \A k \in 1..Len(s) : s[k] = t[k]

EvalsOf(which) == Arr([k \in 1..Len(CursorSeq(data[which])) |-> which])

\* C5: the run ends after exactly 5 epochs with one report per epoch, for
\* e = 0..4 in order; the report of epoch e comes after every batch of epoch
\* e was trained and after the test and then the train accuracy were
\* evaluated, and before any batch of epoch e + 1 is trained.
C5_FiveReports ==
  /\ <>(pc = "done")
  /\ [](pc = "done" => Len(out) = 5)
  /\ [](/\ Len(out) = e
        /\ \A k \in 1..Len(out) : out[k].e = k - 1)
  /\ [](pc = "print" =>
          /\ trained = CursorSeq(data.train)
          /\ Arr([k \in 1..Len(evW) |-> evW[k].which]) = EvalsOf("test") \o EvalsOf("train"))
  /\ [](pc \in {"record", "backward", "SGD", "average"} => evW = <<>>)

C5_Witness == pc = "done" /\ Len(out) = 5 /\ out[5].e = 4

\* the rows of the batch at cursor cur whose predicted class is the label
Hits(d, Wm, cur) ==
  LET b == iter_getbatch(d, cur)
      yhat == net(Wm, b.data)
  IN Cardinality({r \in 1..Len(b.data) :
       \E c \in 1..Len(yhat[r]) :
          /\ c - 1 = b.label[r]
          /\ \A c2 \in 1..Len(yhat[r]) : ~RatLess(yhat[r][c], yhat[r][c2])
          /\ \A c2 \in 1..(c - 1) : RatLess(yhat[r][c2], yhat[r][c])})

HitsOver(d, Wm, curs) == SeqSum(Arr([k \in 1..Len(curs) |-> Hits(d, Wm, curs[k])]))

\* C7: evaluate_accuracy returns the number of examples whose argmax class
\* is the label over the number of examples, over all batches of the
\* iterator, each batch once whatever the iterator's position before the
\* call; the running numerator never exceeds the running denominator.
C7_Accuracy ==
  /\ ev.numerator <= ev.denominator
  /\ pc \in {"eval_for", "eval_return"} =>
       /\ IsPrefix(evseen, CursorSeq(data[ev.which]))
       /\ ev.numerator = HitsOver(data[ev.which], W, evseen)
       /\ ev.denominator = BatchRows * Len(evseen)
  /\ pc = "eval_return" => evseen = CursorSeq(data[ev.which])
  /\ pc = "eval_train" =>
       /\ test_accuracy = <<HitsOver(data.test, W, CursorSeq(data.test)),
                            BatchRows * Len(CursorSeq(data.test))>>
       /\ test_accuracy[1] <= test_accuracy[2] /\ test_accuracy[2] > 0
  /\ pc = "print" =>
       /\ train_accuracy = <<HitsOver(data.train, W, CursorSeq(data.train)),
                             BatchRows * Len(CursorSeq(data.train))>>
       /\ train_accuracy[1] <= train_accuracy[2] /\ train_accuracy[2] > 0

\* the evaluation of the training set, whose iterator the epoch's training
\* left exhausted, returns with some but not all examples right
C7_Witness ==
  /\ pc = "eval_return" /\ ev.which = "train" /\ e >= 1
  /\ Len(evseen) > 1
  /\ 0 < ev.numerator /\ ev.numerator < ev.denominator

MeanLossOfBatch ==
  nd_mean(cross_entropy(net(tape.W, batch.data), nd_one_hot(batch.label, NClasses)))

\* C8: after the first batch of an epoch the moving loss is the mean loss of
\* that batch; after any other batch it is 0.99 times its previous value
\* plus 0.01 times the mean loss of the batch; the value printed for an epoch
\* is the value after the epoch's last batch.
C8_MovingLoss ==
  [][/\ pc = "average" =>
          moving_loss' =
            IF i = 0 THEN MeanLossOfBatch
            ELSE scalar_scale(<<99, 100>>, moving_loss)
                   \o scalar_scale(<<1, 100>>, MeanLossOfBatch)
     /\ pc # "average" => moving_loss' = moving_loss
     /\ pc = "print" => out'[Len(out')].loss = moving_loss]_vars

\* after the first batch of a later epoch: the moving loss is the batch's
\* mean loss, not the value the epoch before ended with
C8_Witness ==
  /\ pc = "for_batch" /\ e >= 1 /\ i = 0
  /\ steps = <<"forward", "backward", "SGD">>
  /\ moving_loss = nd_mean(loss)
  /\ out[e].loss # moving_loss
  /\ Len(out[e].loss) > 1

\* C9: every epoch trains every batch of train_data once, and every
\* evaluation sees every batch once: the iterator is reset at the start of
\* each epoch and of each evaluation, so none starts from a partly consumed
\* or exhausted iterator.
C9_FullPasses ==
  /\ IsPrefix(trained, CursorSeq(data.train))
  /\ (pc = "for_batch" /\ i = -1) => cursor.train = -BatchRows
  /\ (pc = "eval_for" /\ evseen = <<>>) => cursor[ev.which] = -BatchRows
  /\ pc \in {"eval_test", "eval_train", "eval_for", "eval_return", "print"} =>
       trained = CursorSeq(data.train)
  /\ pc = "eval_return" => evseen = CursorSeq(data[ev.which])

\* a later epoch has trained every batch, after the evaluation of the epoch
\* before ran the training iterator to its end
C9_Witness ==
  /\ pc = "eval_test" /\ e >= 1
  /\ cursor.train >= NumTrain
  /\ Len(trained) > 1

\* C10: evaluate_accuracy changes no parameter and no gradient; parameters
\* change only inside SGD, so an epoch starts with the values the last SGD
\* update left, and the test and train accuracies of an epoch are computed
\* with the same parameter values.
C10_EvaluationFrame ==
  [][/\ pc \in {"eval_test", "eval_train", "eval_for", "eval_return"} =>
          W' = W /\ grad' = grad
     /\ W' # W => pc = "SGD"
     /\ (pc' = "for_batch" /\ i' = -1) => W' = updW'
     /\ pc' = "print" =>
          /\ \A k \in 1..Len(evW') : evW'[k].W = W'
          /\ {evW'[k].which : k \in 1..Len(evW')} = {"test", "train"}]_vars

\* the report of a later epoch, both accuracies computed with the trained
\* parameters
C10_Witness ==
  /\ pc = "print" /\ e >= 1
  /\ evW[1].which = "test" /\ evW[Len(evW)].which = "train"
  /\ evW[1].W = W /\ W # tape.W

====
